---- MODULE Spec2Model ----
(***************************************************************************)
(* The card ledger of module card::card (Move, Sui): the Card object, its  *)
(* entry functions, the coins they move and the events they emit.          *)
(*                                                                         *)
(* A transaction is one atomic step.  Each entry function is an operator   *)
(* from (card, arguments, sender) to a result: the status of the           *)
(* transaction, the card it leaves, the coins it transfers and the events  *)
(* it emits.  An abort leaves the card as it was, transfers nothing and    *)
(* emits nothing.  The action of an entry function commits its result.     *)
(***************************************************************************)
EXTENDS Integers, Sequences, FiniteSets, TLC

\* ------------------------------------------------------------------ bounds

\* The largest value of the unsigned integer type of the amounts (u64 in
\* the source, 2^64 - 1), scaled down so that the model reaches it.
MaxU64 == 3

\* The total number of token units in circulation (all accounts and cards).
Supply == 2

\* The total amount the model deposits into one card.
MaxDeposited == 4

\* The number of events the model lets an indexer record.
MaxIndexed == 3

\* ------------------------------------------------------------- constants

OWNER == "0xCAFE"
OTHER_ADDRESS == "0xBEEF"
Addresses == {OWNER, OTHER_ADDRESS}

\* The object ids object::new hands out, in this order.
ObjectIds == {1}

U64 == 0..MaxU64

ENotOwner == 0
EInsufficientBalance == 1
EExceedsSpendingLimit == 2
EInactiveCard == 3

\* The status of a transaction: it succeeded, it aborted with one of the
\* module's codes, or the VM aborted it on an arithmetic overflow.
SUCCESS == "success"
ABORT == "abort"
ARITHMETIC_ERROR == "arithmetic_error"

\* The code field of a result: <<c>> for an abort of the module with code
\* c, <<>> otherwise.
NoCode == <<>>

VARIABLES
    cards,         \* the Card objects, in creation order: cards[i].id = i
    object_owner,  \* object_owner[i]: the address that holds card i
    coins,         \* coins[a]: the token units address a holds outside cards
    flow,          \* flow[i]: the sums of the amounts of the successful calls
                   \* that paid into card i, that paid out of it, and of
                   \* those among the latter that are limit-tracked
    last,          \* the receipt of the latest transaction: the call, its
                   \* status, the events it emitted, the coins it transferred
    indexer,       \* the consumer of the events: whether one is subscribed,
                   \* and the events it has recorded, oldest first
    mempool        \* the transactions submitted together and not yet all
                   \* executed: the card as they were submitted against,
                   \* the calls, and the status of each

vars == <<cards, object_owner, coins, flow, last, indexer, mempool>>

\* ------------------------------------------------------------ the events

CardCreated(card_id, owner, spending_limit) ==
    [type |-> "CardCreated", card_id |-> card_id, owner |-> owner,
     spending_limit |-> spending_limit]

DepositEvent(card_id, amount, new_balance) ==
    [type |-> "Deposit", card_id |-> card_id, amount |-> amount,
     new_balance |-> new_balance]

SpendEvent(card_id, amount, new_balance, total_spent) ==
    [type |-> "Spend", card_id |-> card_id, amount |-> amount,
     new_balance |-> new_balance, total_spent |-> total_spent]

DirectTransferEvent(card_id, recipient, amount, new_balance) ==
    [type |-> "DirectTransfer", card_id |-> card_id, recipient |-> recipient,
     amount |-> amount, new_balance |-> new_balance]

\* ----------------------------------------------------------- the results

\* The transaction ran to its end.
Done(card, transfers, emitted) ==
    [status |-> SUCCESS, code |-> NoCode, card |-> card,
     transfers |-> transfers, emitted |-> emitted]

\* assert!(cond, code) with cond false: the transaction aborts with the
\* code and all its effects are dropped.
Abort(card, code) ==
    [status |-> ABORT, code |-> <<code>>, card |-> card,
     transfers |-> <<>>, emitted |-> <<>>]

\* An addition of two u64 whose sum does not fit: the VM aborts.
Overflow(card) ==
    [status |-> ARITHMETIC_ERROR, code |-> NoCode, card |-> card,
     transfers |-> <<>>, emitted |-> <<>>]

\* transfer::public_transfer(coin, recipient) of a coin of `amount` units.
CoinTo(recipient, amount) == [recipient |-> recipient, amount |-> amount]

\* --------------------------------------------------- the entry functions

\* create_card that refuses a limit of 0.
create_card_positive_limit(spending_limit, sender, fresh) ==
    LET card == [id |-> fresh, owner |-> sender, balance |-> 0,
                 spending_limit |-> spending_limit, amount_spent |-> 0,
                 is_active |-> spending_limit > 0]
    IN  [status |-> IF spending_limit > 0 THEN SUCCESS ELSE ABORT,
         code |-> IF spending_limit > 0 THEN NoCode
                  ELSE <<EExceedsSpendingLimit>>,
         card |-> card,
         transfers |-> <<>>,
         emitted |-> IF spending_limit > 0
                     THEN <<CardCreated(card.id, sender, spending_limit)>>
                     ELSE <<>>,
         holder |-> sender]

create_card(spending_limit, sender, fresh) ==
    LET card == [id |-> fresh, owner |-> sender, balance |-> 0,
                 spending_limit |-> spending_limit, amount_spent |-> 0,
                 is_active |-> TRUE]
    IN  [status |-> SUCCESS, code |-> NoCode, card |-> card,
         transfers |-> <<>>,
         emitted |-> <<CardCreated(card.id, sender, spending_limit)>>,
         holder |-> sender]

\* deposit without the check of the sender.
deposit_by_anyone(card, payment, sender) ==
    IF ~card.is_active THEN Abort(card, EInactiveCard)
    ELSE IF card.balance + payment > MaxU64 THEN Overflow(card)
    ELSE LET joined == [card EXCEPT !.balance = @ + payment]
         IN  Done(joined, <<>>,
                  <<DepositEvent(card.id, payment, joined.balance)>>)

\* deposit that checks is_active before the sender.
deposit_active_first(card, payment, sender) ==
    IF ~card.is_active THEN Abort(card, EInactiveCard)
    ELSE IF sender # card.owner THEN Abort(card, ENotOwner)
    ELSE IF card.balance + payment > MaxU64 THEN Overflow(card)
    ELSE LET joined == [card EXCEPT !.balance = @ + payment]
         IN  Done(joined, <<>>,
                  <<DepositEvent(card.id, payment, joined.balance)>>)

deposit(card, payment, sender) ==
    IF sender # card.owner THEN Abort(card, ENotOwner)
    ELSE IF ~card.is_active THEN Abort(card, EInactiveCard)
    ELSE IF card.balance + payment > MaxU64 THEN Overflow(card)
    ELSE LET amount == payment
             joined == [card EXCEPT !.balance = @ + payment]
         IN  Done(joined, <<>>,
                  <<DepositEvent(card.id, amount, joined.balance)>>)

\* spend that compares the amount of the call, not the sum of the amounts
\* spent, with the limit.
spend_per_call_limit(card, amount, recipient, sender) ==
    IF sender # card.owner THEN Abort(card, ENotOwner)
    ELSE IF ~card.is_active THEN Abort(card, EInactiveCard)
    ELSE IF ~(card.balance >= amount) THEN Abort(card, EInsufficientBalance)
    ELSE IF card.amount_spent + amount > MaxU64 THEN Overflow(card)
    ELSE LET potential_spent == card.amount_spent + amount
         IN  IF ~(amount <= card.spending_limit)
             THEN Abort(card, EExceedsSpendingLimit)
             ELSE LET paid == [card EXCEPT !.balance = @ - amount,
                                           !.amount_spent = potential_spent]
                  IN  Done(paid, <<CoinTo(recipient, amount)>>,
                           <<SpendEvent(card.id, amount, paid.balance,
                                        paid.amount_spent)>>)

\* spend that compares the amount spent before the call with the limit.
spend_limit_before(card, amount, recipient, sender) ==
    IF sender # card.owner THEN Abort(card, ENotOwner)
    ELSE IF ~card.is_active THEN Abort(card, EInactiveCard)
    ELSE IF ~(card.balance >= amount) THEN Abort(card, EInsufficientBalance)
    ELSE IF card.amount_spent + amount > MaxU64 THEN Overflow(card)
    ELSE LET potential_spent == card.amount_spent + amount
         IN  IF ~(card.amount_spent <= card.spending_limit)
             THEN Abort(card, EExceedsSpendingLimit)
             ELSE LET paid == [card EXCEPT !.balance = @ - amount,
                                           !.amount_spent = potential_spent]
                  IN  Done(paid, <<CoinTo(recipient, amount)>>,
                           <<SpendEvent(card.id, amount, paid.balance,
                                        paid.amount_spent)>>)

\* spend that reads the balance for its event before it pays.
spend_stale_event(card, amount, recipient, sender) ==
    IF sender # card.owner THEN Abort(card, ENotOwner)
    ELSE IF ~card.is_active THEN Abort(card, EInactiveCard)
    ELSE IF ~(card.balance >= amount) THEN Abort(card, EInsufficientBalance)
    ELSE IF card.amount_spent + amount > MaxU64 THEN Overflow(card)
    ELSE LET potential_spent == card.amount_spent + amount
         IN  IF ~(potential_spent <= card.spending_limit)
             THEN Abort(card, EExceedsSpendingLimit)
             ELSE LET paid == [card EXCEPT !.balance = @ - amount,
                                           !.amount_spent = potential_spent]
                  IN  Done(paid, <<CoinTo(recipient, amount)>>,
                           <<SpendEvent(card.id, amount, card.balance,
                                        paid.amount_spent)>>)

\* spend with the limit compared by < instead of <=.
spend_strict_limit(card, amount, recipient, sender) ==
    IF sender # card.owner THEN Abort(card, ENotOwner)
    ELSE IF ~card.is_active THEN Abort(card, EInactiveCard)
    ELSE IF ~(card.balance >= amount) THEN Abort(card, EInsufficientBalance)
    ELSE IF card.amount_spent + amount > MaxU64 THEN Overflow(card)
    ELSE LET potential_spent == card.amount_spent + amount
         IN  IF ~(potential_spent < card.spending_limit)
             THEN Abort(card, EExceedsSpendingLimit)
             ELSE LET paid == [card EXCEPT !.balance = @ - amount,
                                           !.amount_spent = potential_spent]
                  IN  Done(paid, <<CoinTo(recipient, amount)>>,
                           <<SpendEvent(card.id, amount, paid.balance,
                                        paid.amount_spent)>>)

\* spend that pays before it checks the limit and keeps the payment when the
\* check fails.
spend_check_late(card, amount, recipient, sender) ==
    IF sender # card.owner THEN Abort(card, ENotOwner)
    ELSE IF ~card.is_active THEN Abort(card, EInactiveCard)
    ELSE IF ~(card.balance >= amount) THEN Abort(card, EInsufficientBalance)
    ELSE IF card.amount_spent + amount > MaxU64 THEN Overflow(card)
    ELSE LET potential_spent == card.amount_spent + amount
             paid == [card EXCEPT !.balance = @ - amount]
         IN  IF ~(potential_spent <= card.spending_limit)
             THEN [status |-> ABORT, code |-> <<EExceedsSpendingLimit>>,
                   card |-> paid,
                   transfers |-> <<CoinTo(recipient, amount)>>,
                   emitted |-> <<>>]
             ELSE Done([paid EXCEPT !.amount_spent = potential_spent],
                       <<CoinTo(recipient, amount)>>,
                       <<SpendEvent(card.id, amount, paid.balance,
                                    potential_spent)>>)

\* spend that refuses an amount of 0.
spend_positive_amount(card, amount, recipient, sender) ==
    IF sender # card.owner THEN Abort(card, ENotOwner)
    ELSE IF ~card.is_active THEN Abort(card, EInactiveCard)
    ELSE IF ~(amount > 0 /\ card.balance >= amount)
         THEN Abort(card, EInsufficientBalance)
    ELSE IF card.amount_spent + amount > MaxU64 THEN Overflow(card)
    ELSE LET potential_spent == card.amount_spent + amount
         IN  IF ~(potential_spent <= card.spending_limit)
             THEN Abort(card, EExceedsSpendingLimit)
             ELSE LET paid == [card EXCEPT !.balance = @ - amount,
                                           !.amount_spent = potential_spent]
                  IN  Done(paid, <<CoinTo(recipient, amount)>>,
                           <<SpendEvent(card.id, amount, paid.balance,
                                        paid.amount_spent)>>)

\* spend whose addition wraps around instead of aborting.
spend_wrapping(card, amount, recipient, sender) ==
    IF sender # card.owner THEN Abort(card, ENotOwner)
    ELSE IF ~card.is_active THEN Abort(card, EInactiveCard)
    ELSE IF ~(card.balance >= amount) THEN Abort(card, EInsufficientBalance)
    ELSE LET potential_spent == (card.amount_spent + amount) % (MaxU64 + 1)
         IN  IF ~(potential_spent <= card.spending_limit)
             THEN Abort(card, EExceedsSpendingLimit)
             ELSE LET paid == [card EXCEPT !.balance = @ - amount,
                                           !.amount_spent = potential_spent]
                  IN  Done(paid, <<CoinTo(recipient, amount)>>,
                           <<SpendEvent(card.id, amount, paid.balance,
                                        paid.amount_spent)>>)

spend(card, amount, recipient, sender) ==
    IF sender # card.owner THEN Abort(card, ENotOwner)
    ELSE IF ~card.is_active THEN Abort(card, EInactiveCard)
    ELSE IF ~(card.balance >= amount) THEN Abort(card, EInsufficientBalance)
    ELSE IF card.amount_spent + amount > MaxU64 THEN Overflow(card)
    ELSE LET potential_spent == card.amount_spent + amount
         IN  IF ~(potential_spent <= card.spending_limit)
             THEN Abort(card, EExceedsSpendingLimit)
             ELSE LET paid == [card EXCEPT !.balance = @ - amount,
                                           !.amount_spent = potential_spent]
                  IN  Done(paid, <<CoinTo(recipient, amount)>>,
                           <<SpendEvent(card.id, amount, paid.balance,
                                        paid.amount_spent)>>)

\* spend_to_owner that pays the sender outside the limit tracking.
spend_to_owner_untracked(card, amount, sender) ==
    LET r == spend(card, amount, sender, sender)
    IN  IF r.status = SUCCESS
        THEN [r EXCEPT !.card.amount_spent = card.amount_spent]
        ELSE r

spend_to_owner(card, amount, sender) ==
    spend(card, amount, sender, sender)

\* direct_transfer with the balance compared by > instead of >=.
direct_transfer_strict_balance(card, amount, recipient, sender) ==
    IF sender # card.owner THEN Abort(card, ENotOwner)
    ELSE IF ~card.is_active THEN Abort(card, EInactiveCard)
    ELSE IF ~(card.balance > amount) THEN Abort(card, EInsufficientBalance)
    ELSE LET paid == [card EXCEPT !.balance = @ - amount]
         IN  Done(paid, <<CoinTo(recipient, amount)>>,
                  <<DirectTransferEvent(card.id, recipient, amount,
                                        paid.balance)>>)

\* direct_transfer without the check of is_active.
direct_transfer_any_state(card, amount, recipient, sender) ==
    IF sender # card.owner THEN Abort(card, ENotOwner)
    ELSE IF ~(card.balance >= amount) THEN Abort(card, EInsufficientBalance)
    ELSE LET paid == [card EXCEPT !.balance = @ - amount]
         IN  Done(paid, <<CoinTo(recipient, amount)>>,
                  <<DirectTransferEvent(card.id, recipient, amount,
                                        paid.balance)>>)

\* direct_transfer that checks the spending limit as spend does.
direct_transfer_limited(card, amount, recipient, sender) ==
    IF sender # card.owner THEN Abort(card, ENotOwner)
    ELSE IF ~card.is_active THEN Abort(card, EInactiveCard)
    ELSE IF ~(card.balance >= amount) THEN Abort(card, EInsufficientBalance)
    ELSE IF ~(card.amount_spent + amount <= card.spending_limit)
         THEN Abort(card, EExceedsSpendingLimit)
    ELSE LET paid == [card EXCEPT !.balance = @ - amount]
         IN  Done(paid, <<CoinTo(recipient, amount)>>,
                  <<DirectTransferEvent(card.id, recipient, amount,
                                        paid.balance)>>)

\* direct_transfer that pays the sender, as withdraw does, instead of the
\* recipient.
direct_transfer_to_sender(card, amount, recipient, sender) ==
    IF sender # card.owner THEN Abort(card, ENotOwner)
    ELSE IF ~card.is_active THEN Abort(card, EInactiveCard)
    ELSE IF ~(card.balance >= amount) THEN Abort(card, EInsufficientBalance)
    ELSE LET paid == [card EXCEPT !.balance = @ - amount]
         IN  Done(paid, <<CoinTo(sender, amount)>>,
                  <<DirectTransferEvent(card.id, recipient, amount,
                                        paid.balance)>>)

direct_transfer(card, amount, recipient, sender) ==
    IF sender # card.owner THEN Abort(card, ENotOwner)
    ELSE IF ~card.is_active THEN Abort(card, EInactiveCard)
    ELSE IF ~(card.balance >= amount) THEN Abort(card, EInsufficientBalance)
    ELSE LET paid == [card EXCEPT !.balance = @ - amount]
         IN  Done(paid, <<CoinTo(recipient, amount)>>,
                  <<DirectTransferEvent(card.id, recipient, amount,
                                        paid.balance)>>)

\* get_card_info that returns the limit and the balance in each other's
\* place.
get_card_info_swapped(card) ==
    <<card.owner, card.spending_limit, card.balance, card.amount_spent,
      card.is_active>>

get_card_info(card) ==
    <<card.owner, card.balance, card.spending_limit, card.amount_spent,
      card.is_active>>

\* deactivate_card that flips the flag.
deactivate_card_toggle(card, sender) ==
    IF sender # card.owner THEN Abort(card, ENotOwner)
    ELSE Done([card EXCEPT !.is_active = ~@], <<>>, <<>>)

\* deactivate_card that also clears the amount spent.
deactivate_card_clears(card, sender) ==
    IF sender # card.owner THEN Abort(card, ENotOwner)
    ELSE Done([card EXCEPT !.is_active = FALSE, !.amount_spent = 0],
              <<>>, <<>>)

deactivate_card(card, sender) ==
    IF sender # card.owner THEN Abort(card, ENotOwner)
    ELSE Done([card EXCEPT !.is_active = FALSE], <<>>, <<>>)

\* reactivate_card that gives the card a fresh start: it also clears the
\* amount spent.
reactivate_card_fresh(card, sender) ==
    IF sender # card.owner THEN Abort(card, ENotOwner)
    ELSE Done([card EXCEPT !.is_active = TRUE, !.amount_spent = 0],
              <<>>, <<>>)

reactivate_card(card, sender) ==
    IF sender # card.owner THEN Abort(card, ENotOwner)
    ELSE Done([card EXCEPT !.is_active = TRUE], <<>>, <<>>)

\* update_spending_limit that refuses a limit under the amount spent.
update_spending_limit_floor(card, new_limit, sender) ==
    IF sender # card.owner THEN Abort(card, ENotOwner)
    ELSE IF new_limit < card.amount_spent
         THEN Abort(card, EExceedsSpendingLimit)
    ELSE Done([card EXCEPT !.spending_limit = new_limit], <<>>, <<>>)

\* update_spending_limit that starts the spent amount again from 0.
update_spending_limit_resets(card, new_limit, sender) ==
    IF sender # card.owner THEN Abort(card, ENotOwner)
    ELSE Done([card EXCEPT !.spending_limit = new_limit,
                           !.amount_spent = 0], <<>>, <<>>)

update_spending_limit(card, new_limit, sender) ==
    IF sender # card.owner THEN Abort(card, ENotOwner)
    ELSE Done([card EXCEPT !.spending_limit = new_limit], <<>>, <<>>)

\* withdraw that trusts whoever holds the card: no check of the sender.
withdraw_by_holder(card, amount, sender) ==
    IF ~(card.balance >= amount) THEN Abort(card, EInsufficientBalance)
    ELSE Done([card EXCEPT !.balance = @ - amount],
              <<CoinTo(sender, amount)>>, <<>>)

\* withdraw that emits an event, as the other payments do.
withdraw_notifies(card, amount, sender) ==
    IF sender # card.owner THEN Abort(card, ENotOwner)
    ELSE IF ~(card.balance >= amount) THEN Abort(card, EInsufficientBalance)
    ELSE LET paid == [card EXCEPT !.balance = @ - amount]
         IN  Done(paid, <<CoinTo(sender, amount)>>,
                  <<DirectTransferEvent(card.id, sender, amount,
                                        paid.balance)>>)

\* withdraw without the check of the balance.
withdraw_unchecked(card, amount, sender) ==
    IF sender # card.owner THEN Abort(card, ENotOwner)
    ELSE Done([card EXCEPT !.balance = @ - amount],
              <<CoinTo(sender, amount)>>, <<>>)

\* withdraw that requires an active card, as deposit and spend do.
withdraw_active_only(card, amount, sender) ==
    IF sender # card.owner THEN Abort(card, ENotOwner)
    ELSE IF ~card.is_active THEN Abort(card, EInactiveCard)
    ELSE IF ~(card.balance >= amount) THEN Abort(card, EInsufficientBalance)
    ELSE Done([card EXCEPT !.balance = @ - amount],
              <<CoinTo(sender, amount)>>, <<>>)

\* withdraw that pays the coin and leaves the balance as it was.
withdraw_keeps_balance(card, amount, sender) ==
    IF sender # card.owner THEN Abort(card, ENotOwner)
    ELSE IF ~(card.balance >= amount) THEN Abort(card, EInsufficientBalance)
    ELSE Done(card, <<CoinTo(sender, amount)>>, <<>>)

withdraw(card, amount, sender) ==
    IF sender # card.owner THEN Abort(card, ENotOwner)
    ELSE IF ~(card.balance >= amount) THEN Abort(card, EInsufficientBalance)
    ELSE Done([card EXCEPT !.balance = @ - amount],
              <<CoinTo(sender, amount)>>, <<>>)

\* ------------------------------------------------------ the transactions

CardIds == 1..Len(cards)

\* The entry functions that check and advance amount_spent.
LimitTracked == {"spend", "spend_to_owner"}

\* The coins after the transfers of a transaction, in order.
RECURSIVE Credit(_, _)
Credit(held, transfers) ==
    IF transfers = <<>> THEN held
    ELSE Credit([held EXCEPT ![Head(transfers).recipient] =
                                 @ + Head(transfers).amount],
                Tail(transfers))

\* event::emit of the events of a transaction that ran to its end: a
\* subscribed indexer records them after those it has, in order.
Emit(emitted) ==
    /\ indexer.subscribed =>
          Len(indexer.events) + Len(emitted) <= MaxIndexed
    /\ indexer' = IF indexer.subscribed
                  THEN [indexer EXCEPT !.events = @ \o emitted]
                  ELSE indexer

\* The receipt of a transaction: the call (op, card_id, sender, amount,
\* recipient), the card and the coins as the call found them (the created
\* card for create_card), the status and code it ended with, the events it
\* emitted, the coins it transferred and the value it returned.
Receipt(op, id, sender, amount, recipient, pre, r, ret) ==
    [op |-> op, card_id |-> id, sender |-> sender, amount |-> amount,
     recipient |-> recipient, pre |-> pre, pre_coins |-> coins,
     status |-> r.status,
     code |-> r.code, events |-> r.emitted, transfers |-> r.transfers,
     ret |-> ret]

\* The effects of a transaction on a store that keeps one card state per
\* owner: every card of the owner of card id takes the state the call left.
Effects_by_owner(op, id, sender, amount, recipient, r, paid_in, paid_out) ==
    LET ok == r.status = SUCCESS
    IN  /\ cards' = [i \in CardIds |->
                        IF cards[i].owner = cards[id].owner
                        THEN [r.card EXCEPT !.id = i]
                        ELSE cards[i]]
        /\ coins' = Credit([coins EXCEPT ![sender] =
                                @ - (IF ok THEN paid_in ELSE 0)],
                           r.transfers)
        /\ flow' = [flow EXCEPT
                       ![id].paid_in = @ + (IF ok THEN paid_in ELSE 0),
                       ![id].paid_out = @ + (IF ok THEN paid_out ELSE 0),
                       ![id].tracked =
                           @ + (IF ok /\ op \in LimitTracked THEN amount
                                ELSE 0)]
        /\ last' = Receipt(op, id, sender, amount, recipient, cards[id], r, <<>>)
        /\ Emit(r.emitted)
        /\ UNCHANGED object_owner

\* The effects of the result r of a transaction of sender on card id.
\* paid_in is the value of the coin the call consumes (deposit), which
\* leaves the sender only when the transaction succeeds; paid_out is the
\* amount the call asks to move out of the card.
Effects(op, id, sender, amount, recipient, r, paid_in, paid_out) ==
    LET ok == r.status = SUCCESS
    IN  /\ cards' = [cards EXCEPT ![id] = r.card]
        /\ coins' = Credit([coins EXCEPT ![sender] =
                                @ - (IF ok THEN paid_in ELSE 0)],
                           r.transfers)
        /\ flow' = [flow EXCEPT
                       ![id].paid_in = @ + (IF ok THEN paid_in ELSE 0),
                       ![id].paid_out = @ + (IF ok THEN paid_out ELSE 0),
                       ![id].tracked =
                           @ + (IF ok /\ op \in LimitTracked THEN amount
                                ELSE 0)]
        /\ last' = Receipt(op, id, sender, amount, recipient, cards[id], r, <<>>)
        /\ Emit(r.emitted)
        /\ UNCHANGED object_owner

\* Commits the result of a transaction sent on its own.
Commit(op, id, sender, amount, recipient, r, paid_in, paid_out) ==
    /\ Effects(op, id, sender, amount, recipient, r, paid_in, paid_out)
    /\ UNCHANGED mempool

\* A create_card transaction: object::new hands out the next id.
NewCard(spending_limit, sender) ==
    LET r == create_card(spending_limit, sender, Len(cards) + 1)
    IN  /\ cards' = Append(cards, r.card)
        /\ object_owner' = Append(object_owner, r.holder)
        /\ flow' = Append(flow, [paid_in |-> 0, paid_out |-> 0, tracked |-> 0])
        /\ last' = Receipt("create_card", r.card.id, sender, spending_limit,
                           sender, r.card, r, <<>>)
        /\ Emit(r.emitted)
        /\ UNCHANGED <<coins, mempool>>

CreateCard(spending_limit, sender) ==
    /\ Len(cards) + 1 \in ObjectIds
    /\ NewCard(spending_limit, sender)

\* A transaction can take a card as an argument only when its sender holds
\* the object; the coin of a deposit is one the sender holds.
Deposit(id, payment) ==
    LET sender == object_owner[id]
    IN  /\ payment <= coins[sender]
        /\ flow[id].paid_in + payment <= MaxDeposited
        /\ Commit("deposit", id, sender, payment, sender,
                  deposit(cards[id], payment, sender), payment, 0)

Spend(id, amount, recipient) ==
    LET sender == object_owner[id]
    IN  Commit("spend", id, sender, amount, recipient,
               spend(cards[id], amount, recipient, sender), 0, amount)

SpendToOwner(id, amount) ==
    LET sender == object_owner[id]
    IN  Commit("spend_to_owner", id, sender, amount, sender,
               spend_to_owner(cards[id], amount, sender), 0, amount)

DirectTransfer(id, amount, recipient) ==
    LET sender == object_owner[id]
    IN  Commit("direct_transfer", id, sender, amount, recipient,
               direct_transfer(cards[id], amount, recipient, sender), 0, amount)

DeactivateCard(id) ==
    LET sender == object_owner[id]
    IN  Commit("deactivate_card", id, sender, 0, sender,
               deactivate_card(cards[id], sender), 0, 0)

ReactivateCard(id) ==
    LET sender == object_owner[id]
    IN  Commit("reactivate_card", id, sender, 0, sender,
               reactivate_card(cards[id], sender), 0, 0)

UpdateSpendingLimit(id, new_limit) ==
    LET sender == object_owner[id]
    IN  Commit("update_spending_limit", id, sender, new_limit, sender,
               update_spending_limit(cards[id], new_limit, sender), 0, 0)

Withdraw(id, amount) ==
    LET sender == object_owner[id]
    IN  Commit("withdraw", id, sender, amount, sender,
               withdraw(cards[id], amount, sender), 0, amount)

\* get_card_info takes the card by immutable reference: a read.
GetCardInfo(id) ==
    LET sender == object_owner[id]
    IN  /\ last' = Receipt("get_card_info", id, sender, 0, sender, cards[id],
                           Done(cards[id], <<>>, <<>>),
                           get_card_info(cards[id]))
        /\ UNCHANGED <<cards, object_owner, coins, flow, indexer, mempool>>

\* A transfer of the object that also rewrites the owner field of the card.
TransferObject_reowns(id, to) ==
    /\ to # object_owner[id]
    /\ object_owner' = [object_owner EXCEPT ![id] = to]
    /\ cards' = [cards EXCEPT ![id].owner = to]
    /\ last' = Receipt("transfer_object", id, object_owner[id], 0, to,
                       cards[id], Done(cards[id], <<>>, <<>>), <<>>)
    /\ UNCHANGED <<coins, flow, indexer, mempool>>

\* Card has the store ability: its holder can transfer the object to another
\* address with the platform's transfer command, outside the module.
TransferObject(id, to) ==
    /\ to # object_owner[id]
    /\ object_owner' = [object_owner EXCEPT ![id] = to]
    /\ last' = Receipt("transfer_object", id, object_owner[id], 0, to,
                       cards[id], Done(cards[id], <<>>, <<>>), <<>>)
    /\ UNCHANGED <<cards, coins, flow, indexer, mempool>>

\* No transactions submitted together.
NoBatch == [base |-> <<>>, calls |-> <<>>, status |-> <<>>]

NoReceipt ==
    [op |-> "none", card_id |-> 0, sender |-> OWNER, amount |-> 0,
     recipient |-> OWNER, pre |-> <<>>, pre_coins |-> <<>>, status |-> SUCCESS, code |-> NoCode,
     events |-> <<>>, transfers |-> <<>>, ret |-> <<>>]

Init ==
    /\ cards = <<>>
    /\ object_owner = <<>>
    /\ coins = [a \in Addresses |-> IF a = OWNER THEN Supply ELSE 0]
    /\ flow = <<>>
    /\ last = NoReceipt
    /\ indexer = [subscribed |-> FALSE, events |-> <<>>]
    /\ mempool = NoBatch

\* The ledger with an indexer subscribed to its events from the start.
InitIndexed ==
    /\ cards = <<>>
    /\ object_owner = <<>>
    /\ coins = [a \in Addresses |-> IF a = OWNER THEN Supply ELSE 0]
    /\ flow = <<>>
    /\ last = NoReceipt
    /\ indexer = [subscribed |-> TRUE, events |-> <<>>]
    /\ mempool = NoBatch

Next ==
    \/ \E l \in U64, s \in Addresses : CreateCard(l, s)
    \/ \E id \in CardIds, a \in U64 : Deposit(id, a)
    \/ \E id \in CardIds, a \in U64, r \in Addresses : Spend(id, a, r)
    \/ \E id \in CardIds, a \in U64 : SpendToOwner(id, a)
    \/ \E id \in CardIds, a \in U64, r \in Addresses : DirectTransfer(id, a, r)
    \/ \E id \in CardIds : DeactivateCard(id)
    \/ \E id \in CardIds : ReactivateCard(id)
    \/ \E id \in CardIds, l \in U64 : UpdateSpendingLimit(id, l)
    \/ \E id \in CardIds, a \in U64 : Withdraw(id, a)
    \/ \E id \in CardIds : GetCardInfo(id)
    \/ \E id \in CardIds, to \in Addresses : TransferObject(id, to)

Spec == Init /\ [][Next]_vars

SpecIndexed == InitIndexed /\ [][Next]_vars

\* ------------------------------------------- transactions sent together

PENDING == "pending"

\* The calls that move value out of a card, as sent together on one card:
\* spend and direct_transfer to another address, withdraw to the sender.
BatchCalls ==
    [op : {"spend", "direct_transfer"}, amount : U64,
     recipient : {OTHER_ADDRESS}]
    \cup [op : {"withdraw"}, amount : U64, recipient : {OWNER}]

\* The entry function of a call, run on a card.
Run(call, card, sender) ==
    CASE call.op = "spend" ->
             spend(card, call.amount, call.recipient, sender)
      [] call.op = "direct_transfer" ->
             direct_transfer(card, call.amount, call.recipient, sender)
      [] call.op = "withdraw" ->
             withdraw(card, call.amount, sender)

Idle == mempool = NoBatch

\* The holder of card id signs two transactions on the card as it is now
\* and sends both before either is executed.
Submit(id, first, second) ==
    /\ Idle
    /\ mempool' = [base |-> <<cards[id]>>, calls |-> <<first, second>>,
                   status |-> <<PENDING, PENDING>>]
    /\ UNCHANGED <<cards, object_owner, coins, flow, last, indexer>>

\* Execution that decides on the card as it was when the transaction was
\* signed and writes to the card as it is now.
Execute_stale_check(i) ==
    /\ ~Idle
    /\ mempool.status[i] = PENDING
    /\ LET id == mempool.base[1].id
           call == mempool.calls[i]
           sender == object_owner[id]
           decided == Run(call, mempool.base[1], sender)
           written == [cards[id] EXCEPT
                          !.balance = @ - call.amount,
                          !.amount_spent =
                              @ + (IF call.op = "spend" THEN call.amount
                                   ELSE 0)]
           r == IF decided.status = SUCCESS
                THEN [decided EXCEPT !.card = written]
                ELSE [decided EXCEPT !.card = cards[id]]
       IN  /\ Effects(call.op, id, sender, call.amount,
                      IF call.op = "withdraw" THEN sender ELSE call.recipient,
                      r, 0, call.amount)
           /\ mempool' = [mempool EXCEPT !.status[i] = r.status]

\* A validator executes one of the transactions sent together, in any
\* order: the entry function takes the card by &mut and runs from its
\* first assert to its last statement on the card as it is now.
Execute(i) ==
    /\ ~Idle
    /\ mempool.status[i] = PENDING
    /\ LET id == mempool.base[1].id
           call == mempool.calls[i]
           sender == object_owner[id]
           r == Run(call, cards[id], sender)
       IN  /\ Effects(call.op, id, sender, call.amount,
                      IF call.op = "withdraw" THEN sender ELSE call.recipient,
                      r, 0, call.amount)
           /\ mempool' = [mempool EXCEPT !.status[i] = r.status]

\* The owner creates a card, funds it and spends from it, one transaction
\* at a time, then sends two transactions together.
NextConcurrent ==
    \/ \E l \in U64 : Idle /\ CreateCard(l, OWNER)
    \/ \E id \in CardIds, a \in U64 : Idle /\ Deposit(id, a)
    \/ \E id \in CardIds, a \in U64 : Idle /\ Spend(id, a, OTHER_ADDRESS)
    \/ \E id \in CardIds, first \in BatchCalls, second \in BatchCalls :
          Submit(id, first, second)
    \/ \E i \in {1, 2} : Execute(i)

SpecConcurrent == Init /\ [][NextConcurrent]_vars

\* ------------------------------------------------------ several cards

\* The object ids of a store of two cards.
TwoObjectIds == {1, 2}

\* The largest amount and limit of the transactions on the store of two
\* cards, and the total amount deposited into each.
MaxPairAmount == 1

PairAmounts == 0..MaxPairAmount

\* The ledger with two cards, of one owner or of two.
NextTwoCards ==
    \/ \E l \in PairAmounts, s \in Addresses :
          Len(cards) + 1 \in TwoObjectIds /\ NewCard(l, s)
    \/ \E id \in CardIds, a \in PairAmounts :
          flow[id].paid_in + a <= MaxPairAmount /\ Deposit(id, a)
    \/ \E id \in CardIds, a \in PairAmounts : Spend(id, a, OTHER_ADDRESS)
    \/ \E id \in CardIds, a \in PairAmounts : SpendToOwner(id, a)
    \/ \E id \in CardIds, a \in PairAmounts :
          DirectTransfer(id, a, OTHER_ADDRESS)
    \/ \E id \in CardIds : DeactivateCard(id)
    \/ \E id \in CardIds : ReactivateCard(id)
    \/ \E id \in CardIds, l \in PairAmounts : UpdateSpendingLimit(id, l)
    \/ \E id \in CardIds, a \in PairAmounts : Withdraw(id, a)
    \/ \E id \in CardIds : GetCardInfo(id)
    \/ \E id \in CardIds, to \in Addresses : TransferObject(id, to)

SpecTwoCards == Init /\ [][NextTwoCards]_vars

\* ------------------------------------------------------- the card view

\* The decimal string of a number, as the sequence of its digits: the
\* form in which the ledger's JSON carries a u64.
RECURSIVE toString(_)
toString(n) ==
    IF n < 10 THEN <<n>> ELSE Append(toString(n \div 10), n % 10)

\* a || b of the view's language for a boolean a: a when a is true, b
\* otherwise.
OrBoolean(a, b) == IF a THEN a ELSE b

\* a || b of the view's language for a string a: a when a is not empty
\* (the string "0" included), b otherwise.
OrString(a, b) == IF a # <<>> THEN a ELSE b

\* suiClient.getOwnedObjects({owner, filter: StructType ...::card::Card})
\* with showContent: the Card objects the address holds, with their fields.
getOwnedObjects(owner) ==
    [id \in {i \in CardIds : object_owner[i] = owner} |->
        [objectId |-> id,
         fields |-> [balance |-> toString(cards[id].balance),
                     spending_limit |-> toString(cards[id].spending_limit),
                     amount_spent |-> toString(cards[id].amount_spent),
                     is_active |-> cards[id].is_active]]]

\* useCards.fetchCards for the connected account: one Card of the view for
\* each object fetched.
fetchCards(account) ==
    LET objects == getOwnedObjects(account)
    IN  [id \in DOMAIN objects |->
            LET fields == objects[id].fields
            IN  [id |-> objects[id].objectId,
                 balance |-> OrString(fields.balance, toString(0)),
                 spendingLimit |->
                     OrString(fields.spending_limit, toString(0)),
                 amountSpent |-> OrString(fields.amount_spent, toString(0)),
                 isActive |-> OrBoolean(fields.is_active, TRUE)]]

\* ---------------------------------------------------- the history view

\* The module that emits the ledger's events: module card::card.
EVENT_MODULE == "card"

\* The module HistoryPage asks the events of.
QUERIED_MODULE == "smart_card"

\* The events the indexer has recorded, as the query service returns
\* them: the type name, the fields as parsedJson, the module that emitted
\* the event and the time of the transaction (here its place in the
\* stream: one checkpoint per transaction).
IndexedEvents ==
    [i \in 1..Len(indexer.events) |->
        [type |-> indexer.events[i].type,
         module |-> EVENT_MODULE,
         parsedJson |-> indexer.events[i],
         timestampMs |-> i]]

\* client.queryEvents({query: {MoveEventModule: {package, module}}}).
queryEvents(module) ==
    SelectSeq(IndexedEvents, LAMBDA event : event.module = module)

\* parseEventType on the last segment of the type name, lower-cased: the
\* first of deposit, withdraw, spend, directtransfer, cardcreated the name
\* includes, and create for a name that includes none.
parseEventType(eventType) ==
    IF eventType = "Deposit" THEN "deposit"
    ELSE IF eventType = "Spend" THEN "spend"
    ELSE IF eventType = "DirectTransfer" THEN "transfer"
    ELSE IF eventType = "CardCreated" THEN "create"
    ELSE "create"

\* The transactions of a list, the one of the latest timestamp first:
\* [...txEvents].sort((a, b) => b.timestamp - a.timestamp).
RECURSIVE SortNewestFirst(_)
SortNewestFirst(txs) ==
    IF txs = <<>> THEN <<>>
    ELSE LET newest == CHOOSE i \in 1..Len(txs) :
                           /\ \A j \in 1..Len(txs) :
                                 txs[j].timestamp <= txs[i].timestamp
                           /\ \A j \in 1..(i - 1) :
                                 txs[j].timestamp < txs[i].timestamp
             others == [j \in 1..(Len(txs) - 1) |->
                           IF j < newest THEN txs[j] ELSE txs[j + 1]]
         IN  <<txs[newest]>> \o SortNewestFirst(others)

\* HistoryPage.fetchTransactionData for the connected account: the events
\* of the queried module whose user field is the account, each as a
\* transaction, newest first.
fetchTransactionData(account) ==
    LET events == queryEvents(QUERIED_MODULE)
        mine == SelectSeq(events, LAMBDA event :
                    /\ "user" \in DOMAIN event.parsedJson
                    /\ event.parsedJson.user = account)
        txEvents == [i \in 1..Len(mine) |->
                        [type |-> parseEventType(mine[i].type),
                         amount |-> IF "amount" \in DOMAIN mine[i].parsedJson
                                    THEN mine[i].parsedJson.amount
                                    ELSE 0,
                         timestamp |-> mine[i].timestampMs,
                         cardId |-> mine[i].parsedJson.card_id]]
    IN  SortNewestFirst(txEvents)

\* ------------------------------------------------------------ the claims

\* The card the latest transaction named, as the transaction left it.
Post == cards[last.card_id]

Called(op) == last.op = op

Succeeded == last.status = SUCCESS

AbortedWith(code) == last.status = ABORT /\ last.code = <<code>>

ByOwner == last.sender = last.pre.owner

\* The four preconditions of spend, on the card the call found.
SpendPreconditions ==
    /\ ByOwner
    /\ last.pre.is_active
    /\ last.pre.balance >= last.amount
    /\ last.pre.amount_spent + last.amount <= last.pre.spending_limit

\* C1: spend succeeds if and only if the caller is the owner, the card is
\* active, the balance covers the amount and amount_spent + amount does not
\* exceed spending_limit; a successful spend adds the amount to amount_spent,
\* takes it from balance and changes no other field.
C1_SpendContract ==
    Called("spend") =>
        /\ Succeeded <=> SpendPreconditions
        /\ Succeeded =>
              Post = [last.pre EXCEPT
                         !.amount_spent = last.pre.amount_spent + last.amount,
                         !.balance = last.pre.balance - last.amount]

\* A spend that brought amount_spent exactly to spending_limit.
C1_Witness ==
    /\ Called("spend") /\ Succeeded /\ last.amount > 0
    /\ last.pre.amount_spent + last.amount = last.pre.spending_limit
    /\ Post.amount_spent = Post.spending_limit

\* C2: a spend that fails reports the first violated precondition in the
\* order NotOwner, InactiveCard, InsufficientBalance, ExceedsSpendingLimit.
C2_FirstViolatedPrecondition ==
    (Called("spend") /\ ~Succeeded) =>
        IF ~ByOwner THEN AbortedWith(ENotOwner)
        ELSE IF ~last.pre.is_active THEN AbortedWith(EInactiveCard)
        ELSE IF ~(last.pre.balance >= last.amount)
             THEN AbortedWith(EInsufficientBalance)
        ELSE AbortedWith(EExceedsSpendingLimit)

\* C3: direct_transfer succeeds if and only if the caller is the owner, the
\* card is active and the balance covers the amount, and fails with
\* NotOwner, InactiveCard, InsufficientBalance in that order; a successful
\* direct_transfer takes the amount from balance and changes no other field.
C3_DirectTransferContract ==
    Called("direct_transfer") =>
        /\ Succeeded <=> (/\ ByOwner
                          /\ last.pre.is_active
                          /\ last.pre.balance >= last.amount)
        /\ Succeeded =>
              Post = [last.pre EXCEPT !.balance = last.pre.balance - last.amount]
        /\ ~Succeeded =>
              IF ~ByOwner THEN AbortedWith(ENotOwner)
              ELSE IF ~last.pre.is_active THEN AbortedWith(EInactiveCard)
              ELSE AbortedWith(EInsufficientBalance)

\* A direct_transfer that emptied a card with a spent amount.
C3_Witness ==
    /\ Called("direct_transfer") /\ Succeeded
    /\ last.amount > 0 /\ last.amount = last.pre.balance
    /\ last.pre.amount_spent > 0

\* C4 as stated: for the owner and an amount within the balance,
\* direct_transfer ends the same way on the card and on the same card with
\* the activity flag the other way round.
C4_ActivityIndependent ==
    (Called("direct_transfer") /\ ByOwner /\ last.pre.balance >= last.amount) =>
        last.status =
            direct_transfer([last.pre EXCEPT !.is_active = ~@], last.amount,
                            last.recipient, last.sender).status

\* C4 as amended: for the owner and an amount within the balance,
\* direct_transfer succeeds on an active card and aborts with InactiveCard
\* on an inactive one, which it leaves unchanged.
C4_RequiresActive ==
    (Called("direct_transfer") /\ ByOwner /\ last.pre.balance >= last.amount) =>
        IF last.pre.is_active THEN Succeeded
        ELSE AbortedWith(EInactiveCard) /\ Post = last.pre

\* A direct_transfer of the owner, within the balance, on an inactive card.
C4_Witness ==
    /\ Called("direct_transfer") /\ ByOwner
    /\ last.amount > 0 /\ last.pre.balance >= last.amount
    /\ ~last.pre.is_active

\* C5: on an active card, a direct_transfer of the owner within the balance
\* succeeds also when amount_spent + amount exceeds spending_limit; it pays
\* the recipient and leaves amount_spent as it was.
C5_LimitBypassed ==
    (/\ Called("direct_transfer") /\ ByOwner /\ last.pre.is_active
     /\ last.pre.balance >= last.amount
     /\ last.pre.amount_spent + last.amount > last.pre.spending_limit) =>
        /\ Succeeded
        /\ last.transfers = <<CoinTo(last.recipient, last.amount)>>
        /\ Post.amount_spent = last.pre.amount_spent
        /\ Post.spending_limit = last.pre.spending_limit

\* A direct_transfer over a limit of 0 after which the card has paid out
\* more than its spending limit.
C5_Witness ==
    /\ Called("direct_transfer") /\ Succeeded
    /\ last.pre.spending_limit = 0 /\ last.amount > 0
    /\ flow[last.card_id].paid_out > Post.spending_limit
    /\ Post.amount_spent = 0

\* C6: withdraw succeeds if and only if the caller is the owner and the
\* balance covers the amount, whether the card is active or not; a
\* successful withdraw takes the amount from balance, pays it to the caller
\* and changes no other field.
C6_WithdrawContract ==
    Called("withdraw") =>
        /\ Succeeded <=> (ByOwner /\ last.pre.balance >= last.amount)
        /\ Succeeded =>
              /\ Post = [last.pre EXCEPT !.balance = last.pre.balance - last.amount]
              /\ last.transfers = <<CoinTo(last.sender, last.amount)>>
              /\ coins = [last.pre_coins EXCEPT ![last.sender] = @ + last.amount]

\* A withdraw that succeeded on a deactivated card.
C6_Witness ==
    /\ Called("withdraw") /\ Succeeded /\ last.amount > 0
    /\ ~last.pre.is_active

\* C7: the balance of every card is the sum of the amounts of its successful
\* deposits minus the sum of the amounts of its successful spend,
\* spend_to_owner, withdraw and direct_transfer calls.
C7_BalanceIsDepositsMinusPayments ==
    \A id \in CardIds :
        cards[id].balance = flow[id].paid_in - flow[id].paid_out

\* A failed payment on a card that has been paid into and out of.
C7_Witness ==
    /\ last.op \in {"spend", "spend_to_owner", "withdraw", "direct_transfer"}
    /\ ~Succeeded /\ last.amount > 0
    /\ flow[last.card_id].paid_in > 1
    /\ flow[last.card_id].paid_out > 0
    /\ Post.balance > 0

OwnerGated ==
    {"deposit", "spend", "spend_to_owner", "direct_transfer", "withdraw",
     "deactivate_card", "reactivate_card", "update_spending_limit"}

\* C8: every owner-gated operation called by an address that is not the
\* owner of the card aborts with NotOwner and leaves the card unchanged.
C8_NotOwnerAborts ==
    (last.op \in OwnerGated /\ ~ByOwner) =>
        /\ AbortedWith(ENotOwner)
        /\ Post = last.pre
        /\ coins = last.pre_coins

\* A deposit of an address that holds the card of another owner.
C8_Witness ==
    /\ Called("deposit") /\ ~ByOwner
    /\ last.amount > 0 /\ last.pre.is_active

\* C9: a transaction that aborts changes no field of the card, moves no
\* value and emits no event.
C9_AbortHasNoEffect ==
    (last.op \in OwnerGated /\ ~Succeeded) =>
        /\ Post = last.pre
        /\ coins = last.pre_coins
        /\ last.transfers = <<>>
        /\ last.events = <<>>

\* A spend of the owner that the spending limit stopped.
C9_Witness ==
    /\ Called("spend") /\ AbortedWith(EExceedsSpendingLimit)
    /\ last.amount > 0

\* C10: no transaction decreases amount_spent, and only a successful spend
\* or spend_to_owner changes it.
C10_AmountSpentMonotonic ==
    last.op \in OwnerGated =>
        /\ Post.amount_spent >= last.pre.amount_spent
        /\ Post.amount_spent # last.pre.amount_spent =>
              (last.op \in {"spend", "spend_to_owner"} /\ Succeeded)

\* A limit update below the amount already spent.
C10_Witness ==
    /\ Called("update_spending_limit") /\ Succeeded
    /\ last.amount < Post.amount_spent

\* C11: after every successful spend amount_spent is at most spending_limit,
\* and a card goes from amount_spent <= spending_limit to amount_spent >
\* spending_limit only by an update_spending_limit that lowers the limit.
C11_SpentWithinLimitAfterSpend ==
    /\ (last.op \in LimitTracked /\ Succeeded) =>
          Post.amount_spent <= Post.spending_limit
    /\ (/\ last.op \in OwnerGated
        /\ last.pre.amount_spent <= last.pre.spending_limit
        /\ Post.amount_spent > Post.spending_limit) =>
          /\ Called("update_spending_limit") /\ Succeeded
          /\ last.amount < last.pre.spending_limit
          /\ Post.amount_spent = last.pre.amount_spent

\* An update_spending_limit that took the limit of a card under the amount
\* it had spent within its limit.
C11_Witness ==
    /\ Called("update_spending_limit") /\ Succeeded
    /\ last.pre.amount_spent > 0
    /\ last.pre.amount_spent <= last.pre.spending_limit
    /\ Post.amount_spent > Post.spending_limit

\* C12: while spending_limit < amount_spent every spend and spend_to_owner
\* fails, for every amount, and every other call but update_spending_limit
\* leaves spending_limit < amount_spent; after an update_spending_limit of
\* the owner to at least amount_spent + a, a spend of a by the owner
\* succeeds when the card is active and the balance covers a.
C12_BlockedUntilLimitRaised ==
    /\ (last.op \in LimitTracked
        /\ last.pre.spending_limit < last.pre.amount_spent) => ~Succeeded
    /\ (/\ last.op \in OwnerGated
        /\ last.pre.spending_limit < last.pre.amount_spent
        /\ ~(Called("update_spending_limit") /\ Succeeded)) =>
          Post.spending_limit < Post.amount_spent
    /\ \A id \in CardIds :
          cards[id].spending_limit < cards[id].amount_spent =>
              \A a \in U64, l \in U64, r \in Addresses :
                  LET owner == cards[id].owner
                      raised == update_spending_limit(cards[id], l, owner)
                  IN  /\ spend(cards[id], a, r, owner).status # SUCCESS
                      /\ (/\ l >= cards[id].amount_spent + a
                          /\ cards[id].is_active
                          /\ cards[id].balance >= a) =>
                            /\ raised.status = SUCCESS
                            /\ spend(raised.card, a, r, owner).status = SUCCESS

\* A spend of the owner, within the balance and within the limit as an
\* amount, that an active card refused because the limit is under the
\* amount already spent.
C12_Witness ==
    /\ Called("spend") /\ ByOwner /\ last.pre.is_active
    /\ last.amount > 0 /\ last.pre.balance >= last.amount
    /\ last.amount <= last.pre.spending_limit
    /\ last.pre.spending_limit < last.pre.amount_spent
    /\ AbortedWith(EExceedsSpendingLimit)

\* C13: create_card succeeds for every limit, 0 included, and every sender;
\* the card it creates has balance 0, amount_spent 0, the limit given, is
\* active, is owned and held by the sender, and the call emits
\* CardCreated with the id, the owner and the limit of that card.
C13_CreateContract ==
    /\ \A l \in U64, s \in Addresses :
          create_card(l, s, Len(cards) + 1).status = SUCCESS
    /\ Called("create_card") =>
          /\ Succeeded
          /\ Post = [id |-> last.card_id, owner |-> last.sender, balance |-> 0,
                     spending_limit |-> last.amount, amount_spent |-> 0,
                     is_active |-> TRUE]
          /\ object_owner[last.card_id] = last.sender
          /\ last.events =
                <<CardCreated(last.card_id, last.sender, last.amount)>>
          /\ coins = last.pre_coins

\* A card created with a limit of 0.
C13_Witness ==
    /\ Called("create_card") /\ last.amount = 0
    /\ Post.spending_limit = 0 /\ Post.is_active

\* C14: deposit checks the sender first (NotOwner) and is_active second
\* (InactiveCard); with both it succeeds for every amount, adds the amount
\* to balance and changes no other field; a deposit of the owner into a
\* deactivated card aborts with InactiveCard and leaves the card unchanged.
C14_DepositContract ==
    Called("deposit") =>
        IF ~ByOwner THEN AbortedWith(ENotOwner) /\ Post = last.pre
        ELSE IF ~last.pre.is_active
             THEN AbortedWith(EInactiveCard) /\ Post = last.pre
        ELSE /\ Succeeded
             /\ Post = [last.pre EXCEPT !.balance = last.pre.balance + last.amount]

\* A deposit of an address that is not the owner into a deactivated card.
C14_Witness ==
    /\ Called("deposit") /\ ~ByOwner /\ ~last.pre.is_active
    /\ last.amount > 0

\* C15: deactivate_card and reactivate_card of the owner succeed in every
\* card state and set is_active to false and to true, changing no other
\* field; on a card already in that state they change nothing.
C15_TogglesIdempotent ==
    /\ (Called("deactivate_card") /\ ByOwner) =>
          /\ Succeeded
          /\ Post = [last.pre EXCEPT !.is_active = FALSE]
          /\ ~last.pre.is_active => Post = last.pre
    /\ (Called("reactivate_card") /\ ByOwner) =>
          /\ Succeeded
          /\ Post = [last.pre EXCEPT !.is_active = TRUE]
          /\ last.pre.is_active => Post = last.pre
    /\ last.op \in {"deactivate_card", "reactivate_card"} =>
          /\ coins = last.pre_coins
          /\ last.events = <<>> /\ last.transfers = <<>>

\* A deactivate_card of the owner on a card that is already inactive and
\* holds a balance.
C15_Witness ==
    /\ Called("deactivate_card") /\ ByOwner /\ Succeeded
    /\ ~last.pre.is_active /\ last.pre.balance > 0

\* C16: update_spending_limit of the owner succeeds for every new limit,
\* on an active and on an inactive card, sets spending_limit to the new
\* limit and changes no other field.
C16_UpdateLimitContract ==
    (Called("update_spending_limit") /\ ByOwner) =>
        /\ Succeeded
        /\ Post = [last.pre EXCEPT !.spending_limit = last.amount]
        /\ coins = last.pre_coins
        /\ last.events = <<>> /\ last.transfers = <<>>

\* An update of the limit of an inactive card to 0, under the amount spent.
C16_Witness ==
    /\ Called("update_spending_limit") /\ ByOwner /\ Succeeded
    /\ ~last.pre.is_active /\ last.amount = 0
    /\ last.pre.amount_spent > 0 /\ last.pre.spending_limit > 0

\* C17: spend_to_owner ends as spend with the sender as recipient does on
\* the card it found: the same status and code, the same card after the
\* call, the same coin transferred to the sender and the same event.
C17_SpendToOwnerIsSpend ==
    Called("spend_to_owner") =>
        LET r == spend(last.pre, last.amount, last.sender, last.sender)
        IN  /\ last.status = r.status
            /\ last.code = r.code
            /\ Post = r.card
            /\ last.transfers = r.transfers
            /\ last.events = r.emitted
            /\ coins = Credit(last.pre_coins, r.transfers)
            /\ Succeeded =>
                  last.transfers = <<CoinTo(last.sender, last.amount)>>

\* A spend_to_owner that paid the sender.
C17_Witness ==
    /\ Called("spend_to_owner") /\ Succeeded /\ last.amount > 0
    /\ Post.amount_spent = last.pre.amount_spent + last.amount

\* C19: every event a transaction emits names the card of the call and
\* carries the state the call left: new_balance is the balance after the
\* call, total_spent the amount_spent after the call, amount the amount
\* deposited or moved out.
C19_EventsCarryPostState ==
    \A i \in 1..Len(last.events) :
        LET e == last.events[i]
        IN  /\ e.card_id = last.card_id
            /\ e.type \in {"Deposit", "Spend", "DirectTransfer"} =>
                  /\ e.new_balance = Post.balance
                  /\ e.amount = last.amount
            /\ e.type = "Deposit" =>
                  Post.balance = last.pre.balance + e.amount
            /\ e.type \in {"Spend", "DirectTransfer"} =>
                  /\ Post.balance = last.pre.balance - e.amount
                  /\ last.transfers = <<CoinTo(last.recipient, e.amount)>>
            /\ e.type = "Spend" => e.total_spent = Post.amount_spent
            /\ e.type = "DirectTransfer" => e.recipient = last.recipient

\* A Spend event of a spend that left a balance on a card that had spent
\* before.
C19_Witness ==
    /\ Called("spend") /\ Succeeded /\ last.amount > 0
    /\ Len(last.events) = 1 /\ last.events[1].type = "Spend"
    /\ Post.balance > 0 /\ last.pre.amount_spent > 0

Outgoing == {"spend", "spend_to_owner", "direct_transfer", "withdraw"}

\* C20: no card has a negative balance, and spend, spend_to_owner,
\* direct_transfer and withdraw of an amount over the balance abort with
\* InsufficientBalance, leaving the card unchanged, when no earlier check
\* fails (the owner calls and, for all but withdraw, the card is active).
C20_BalanceNeverNegative ==
    /\ \A id \in CardIds : cards[id].balance >= 0
    /\ (/\ last.op \in Outgoing
        /\ last.amount > last.pre.balance
        /\ ByOwner
        /\ (Called("withdraw") \/ last.pre.is_active)) =>
          /\ AbortedWith(EInsufficientBalance)
          /\ Post = last.pre
          /\ coins = last.pre_coins

\* A withdraw of the owner of more than the balance of a funded card.
C20_Witness ==
    /\ Called("withdraw") /\ ByOwner
    /\ last.pre.balance > 0 /\ last.amount > last.pre.balance

\* The types of the records the claim expects of the transaction of a
\* receipt: one for a successful create_card, deposit, spend,
\* spend_to_owner or direct_transfer, none for any other call and none for
\* a call that did not succeed.
ExpectedRecords(receipt) ==
    IF receipt.status # SUCCESS THEN <<>>
    ELSE IF receipt.op = "create_card" THEN <<"CardCreated">>
    ELSE IF receipt.op = "deposit" THEN <<"Deposit">>
    ELSE IF receipt.op \in LimitTracked THEN <<"Spend">>
    ELSE IF receipt.op = "direct_transfer" THEN <<"DirectTransfer">>
    ELSE <<>>

\* C18: every transaction extends the stream of events, at its end and in
\* the order of execution, by exactly one record of its type for a
\* successful create_card, deposit, spend, spend_to_owner or
\* direct_transfer, and by nothing for withdraw, deactivate_card,
\* reactivate_card, update_spending_limit, get_card_info and every call
\* that aborts.
C18_OneRecordPerEmittingCall ==
    [][LET before == indexer.events
           after == indexer'.events
           expected == ExpectedRecords(last')
       IN  /\ Len(after) = Len(before) + Len(expected)
           /\ SubSeq(after, 1, Len(before)) = before
           /\ \A i \in 1..Len(expected) :
                 /\ after[Len(before) + i].type = expected[i]
                 /\ after[Len(before) + i].card_id = last'.card_id]_vars

\* A withdraw that succeeded after a create_card, a deposit and a spend:
\* the stream holds the three records of those, in that order, and none of
\* the withdraw.
C18_Witness ==
    /\ Called("withdraw") /\ Succeeded /\ last.amount > 0
    /\ Len(indexer.events) = 3
    /\ indexer.events[1].type = "CardCreated"
    /\ indexer.events[2].type = "Deposit"
    /\ indexer.events[3].type = "Spend"

\* C21: no transaction changes the owner or the id of a card that exists,
\* whoever sends it, and no transaction removes a card: every card of the
\* store is in the store after the step, under the same id and with the
\* same owner.
C21_OwnerAndIdImmutable ==
    [][/\ Len(cards') >= Len(cards)
       /\ \A id \in CardIds :
             /\ cards'[id].id = cards[id].id
             /\ cards'[id].owner = cards[id].owner
             /\ cards[id].id = id]_vars

\* A funded card that its owner has transferred to another address: the
\* holder differs from the owner field.
C21_Witness ==
    /\ Called("transfer_object")
    /\ object_owner[last.card_id] # Post.owner
    /\ object_owner[last.card_id] = last.recipient
    /\ Post.balance > 0

\* The token units in the cards and the token units the addresses hold.
RECURSIVE SumBalances(_)
SumBalances(cs) ==
    IF cs = <<>> THEN 0 ELSE Head(cs).balance + SumBalances(Tail(cs))

RECURSIVE SumCoins(_, _)
SumCoins(held, as) ==
    IF as = {} THEN 0
    ELSE LET a == CHOOSE x \in as : TRUE
         IN  held[a] + SumCoins(held, as \ {a})

\* C22: the balances of all cards and the holdings of all addresses sum to
\* the same total after every transaction; a successful spend or
\* direct_transfer takes exactly the amount from the card and adds exactly
\* the amount to the recipient named, a successful withdraw adds exactly
\* the amount to the sender, a successful deposit takes from the sender
\* exactly the amount it adds to the card, and no other address changes.
C22_TokensConserved ==
    /\ SumBalances(cards) + SumCoins(coins, Addresses) = Supply
    /\ (last.op \in {"spend", "direct_transfer"} /\ Succeeded) =>
          /\ Post.balance = last.pre.balance - last.amount
          /\ coins = [last.pre_coins EXCEPT ![last.recipient] = @ + last.amount]
    /\ (Called("withdraw") /\ Succeeded) =>
          /\ Post.balance = last.pre.balance - last.amount
          /\ coins = [last.pre_coins EXCEPT ![last.sender] = @ + last.amount]
    /\ (Called("deposit") /\ Succeeded) =>
          /\ Post.balance = last.pre.balance + last.amount
          /\ coins = [last.pre_coins EXCEPT ![last.sender] = @ - last.amount]

\* A direct_transfer of part of the balance to an address that is not the
\* sender.
C22_Witness ==
    /\ Called("direct_transfer") /\ Succeeded /\ last.amount > 0
    /\ last.recipient # last.sender
    /\ Post.balance > 0
    /\ coins[last.recipient] = last.pre_coins[last.recipient] + last.amount

\* C23: a get_card_info, whoever sends it and whether the card is active
\* or not, returns the owner, balance, spending_limit, amount_spent and
\* is_active the card has, in this order, and the step changes no card, no
\* holder, no holding and no recorded event, and emits nothing.
C23_GetInfoIsPure ==
    [][last'.op = "get_card_info" =>
          LET card == cards[last'.card_id]
          IN  /\ last'.status = SUCCESS
              /\ last'.ret = <<card.owner, card.balance, card.spending_limit,
                               card.amount_spent, card.is_active>>
              /\ last'.events = <<>> /\ last'.transfers = <<>>
              /\ UNCHANGED <<cards, object_owner, coins, flow, indexer, mempool>>]_vars

\* A get_card_info sent by an address that is not the owner, on an
\* inactive card whose balance, limit and spent amount all differ.
C23_Witness ==
    /\ Called("get_card_info") /\ ~ByOwner /\ ~Post.is_active
    /\ Post.balance # Post.spending_limit
    /\ Post.balance # Post.amount_spent
    /\ Post.amount_spent > 0
    /\ last.ret[2] = Post.balance /\ last.ret[5] = FALSE

\* C24: no stored amount wraps around.  Every balance, spending_limit and
\* amount_spent is within the range of the unsigned type; a spend or
\* spend_to_owner whose amount_spent + amount is over the largest value
\* does not succeed and leaves the card and the holdings unchanged; a
\* deposit of the owner that would take the balance over the largest value
\* does not succeed and leaves the card unchanged; and what a successful
\* spend or deposit stores is the sum or difference as integers.
C24_NoWraparound ==
    /\ \A id \in CardIds :
          /\ cards[id].balance \in U64
          /\ cards[id].spending_limit \in U64
          /\ cards[id].amount_spent \in U64
    /\ (last.op \in LimitTracked
        /\ last.pre.amount_spent + last.amount > MaxU64) =>
          /\ ~Succeeded
          /\ Post = last.pre
          /\ coins = last.pre_coins
    /\ (last.op \in LimitTracked /\ Succeeded) =>
          /\ Post.amount_spent = last.pre.amount_spent + last.amount
          /\ Post.balance = last.pre.balance - last.amount
    /\ (Called("deposit") /\ Succeeded) =>
          Post.balance = last.pre.balance + last.amount
    /\ \A id \in CardIds, payment \in U64 :
          cards[id].balance + payment > MaxU64 =>
              LET r == deposit(cards[id], payment, cards[id].owner)
              IN  /\ r.status # SUCCESS
                  /\ r.card = cards[id]
                  /\ r.transfers = <<>> /\ r.emitted = <<>>

\* A spend of the owner, within the balance, on an active card, stopped
\* because amount_spent + amount is over the largest value.
C24_Witness ==
    /\ Called("spend") /\ ByOwner /\ last.pre.is_active
    /\ last.pre.balance >= last.amount
    /\ last.pre.amount_spent + last.amount > MaxU64
    /\ last.status = ARITHMETIC_ERROR
    /\ Post = last.pre /\ Post.balance > 0

\* C25: a spend of the owner on an active card, within the balance, whose
\* amount_spent + amount (as integers) is over spending_limit aborts with
\* ExceedsSpendingLimit, also when the sum is over the largest value of the
\* type; and every transaction that fails aborts with one of NotOwner,
\* InsufficientBalance, ExceedsSpendingLimit, InactiveCard.
C25_OverLimitIsExceedsSpendingLimit ==
    /\ (/\ Called("spend") /\ ByOwner /\ last.pre.is_active
        /\ last.pre.balance >= last.amount
        /\ last.pre.amount_spent + last.amount > last.pre.spending_limit) =>
          AbortedWith(EExceedsSpendingLimit)
    /\ ~Succeeded =>
          /\ last.status = ABORT
          /\ last.code \in {<<ENotOwner>>, <<EInsufficientBalance>>,
                            <<EExceedsSpendingLimit>>, <<EInactiveCard>>}

\* C26: on an inactive card every spend and spend_to_owner of the owner
\* aborts with InactiveCard, and a card leaves the inactive state only by a
\* reactivate_card of the owner; on every card, after deactivate_card of
\* the owner every spend of the owner aborts with InactiveCard, and
\* deactivate_card followed by reactivate_card gives an active card back
\* as it was, so that every spend ends on it as it ends on the card before
\* the pair.
C26_DeactivateBlocksReactivateRestores ==
    /\ (last.op \in LimitTracked /\ ByOwner /\ ~last.pre.is_active) =>
          AbortedWith(EInactiveCard) /\ Post = last.pre
    /\ (last.op \in OwnerGated /\ ~last.pre.is_active /\ Post.is_active) =>
          Called("reactivate_card") /\ Succeeded
    /\ (Called("deactivate_card") /\ Succeeded) => ~Post.is_active
    /\ \A id \in CardIds :
          LET card == cards[id]
              owner == card.owner
              off == deactivate_card(card, owner)
              on == reactivate_card(off.card, owner)
          IN  /\ off.status = SUCCESS /\ on.status = SUCCESS
              /\ \A a \in U64, r \in Addresses :
                    LET blocked == spend(off.card, a, r, owner)
                    IN  /\ blocked.status = ABORT
                        /\ blocked.code = <<EInactiveCard>>
                        /\ blocked.card = off.card
              /\ card.is_active =>
                    /\ on.card = card
                    /\ \A a \in U64, r \in Addresses :
                          spend(on.card, a, r, owner) = spend(card, a, r, owner)

\* A reactivate_card of the owner on an inactive card that has spent
\* before: a spend of 1 aborted with InactiveCard on the card as the call
\* found it and succeeds on the card as the call left it.
C26_Witness ==
    /\ Called("reactivate_card") /\ Succeeded /\ ~last.pre.is_active
    /\ last.pre.amount_spent > 0
    /\ spend(last.pre, 1, OTHER_ADDRESS, last.sender).code = <<EInactiveCard>>
    /\ spend(Post, 1, OTHER_ADDRESS, last.sender).status = SUCCESS

\* All the transactions sent together have been executed.
Settled == ~Idle /\ \A i \in 1..Len(mempool.status) : mempool.status[i] # PENDING

\* The two calls sent together, run one after the other in the given
\* order on the card they were sent against.
Sequential(order) ==
    LET base == mempool.base[1]
        one == Run(mempool.calls[order[1]], base, base.owner)
        two == Run(mempool.calls[order[2]], one.card, base.owner)
    IN  [card |-> two.card,
         status |-> [i \in {1, 2} |->
                        IF i = order[1] THEN one.status ELSE two.status]]

\* Each of the two calls succeeds when it alone is run on the card they
\* were sent against.
EachFitsAlone ==
    \A i \in {1, 2} :
        Run(mempool.calls[i], mempool.base[1], mempool.base[1].owner).status
            = SUCCESS

\* The two calls fit together: the balance covers both amounts and the
\* limit covers the spent amount with the amounts of the spends added.
FitTogether ==
    LET base == mempool.base[1]
        tracked(i) == IF mempool.calls[i].op = "spend"
                      THEN mempool.calls[i].amount ELSE 0
    IN  /\ mempool.calls[1].amount + mempool.calls[2].amount <= base.balance
        /\ base.amount_spent + tracked(1) + tracked(2) <= base.spending_limit

\* C27: when two transactions are sent together on one card, once both
\* are executed the card and the two statuses are those of running the two
\* calls one after the other in one of the two orders; two calls that
\* each fit the balance and the limit alone and not together do not both
\* succeed; no balance is negative at any time, and a spend that succeeds
\* leaves amount_spent at most the limit.
C27_ConcurrentCallsSerialize ==
    /\ \A id \in CardIds : cards[id].balance >= 0
    /\ (Called("spend") /\ Succeeded) =>
          Post.amount_spent <= Post.spending_limit
    /\ Settled =>
          /\ \E order \in {<<1, 2>>, <<2, 1>>} :
                /\ cards[mempool.base[1].id] = Sequential(order).card
                /\ \A i \in {1, 2} :
                      mempool.status[i] = Sequential(order).status[i]
          /\ (EachFitsAlone /\ ~FitTogether) =>
                ~(mempool.status[1] = SUCCESS /\ mempool.status[2] = SUCCESS)

\* A spend and a withdraw sent together, each within the balance and the
\* limit alone, the two over the balance: the withdraw was executed first
\* and succeeded, the spend aborted.
C27_Witness ==
    /\ Settled /\ EachFitsAlone /\ ~FitTogether
    /\ mempool.calls[1].op = "spend" /\ mempool.calls[2].op = "withdraw"
    /\ mempool.calls[1].amount > 0 /\ mempool.calls[2].amount > 0
    /\ mempool.status = <<ABORT, SUCCESS>>
    /\ Called("spend") /\ AbortedWith(EInsufficientBalance)

\* C28: a transaction that names a card, whether it succeeds or aborts,
\* leaves every field and the holder of every other card as they were,
\* also when the two cards have the same owner; and the cards of the store
\* have distinct ids.
C28_CardsIndependent ==
    [][/\ \A id \in CardIds :
             id # last'.card_id =>
                 /\ cards'[id] = cards[id]
                 /\ object_owner'[id] = object_owner[id]
                 /\ flow'[id] = flow[id]
       /\ \A i, j \in 1..Len(cards') :
             i # j => cards'[i].id # cards'[j].id]_vars

\* Two funded cards of one owner, after a spend on the second that left
\* the first with its balance and nothing spent.
C28_Witness ==
    /\ Len(cards) = 2
    /\ cards[1].owner = cards[2].owner
    /\ Called("spend") /\ Succeeded /\ last.amount > 0
    /\ last.card_id = 2
    /\ cards[1].balance > 0 /\ cards[1].amount_spent = 0
    /\ cards[2].amount_spent > 0

\* C29: in every state, whatever is_active, spending_limit and amount_spent
\* are, the owner of every card can send a withdraw of the whole balance
\* that succeeds and leaves the balance at 0.
C29_OwnerCanWithdrawAll ==
    \A id \in CardIds :
        ENABLED (/\ Withdraw(id, cards[id].balance)
                 /\ last'.sender = cards[id].owner
                 /\ last'.status = SUCCESS
                 /\ cards'[id].balance = 0)

\* C30: the amount_spent of every card is the sum of the amounts of its
\* successful spend and spend_to_owner calls; update_spending_limit,
\* deactivate_card and reactivate_card leave it as it was; and after an
\* update_spending_limit of the owner to a limit l, a spend of a succeeds
\* only when a is at most l minus the amount already spent.
C30_AmountSpentIsSumOfSpends ==
    /\ \A id \in CardIds : cards[id].amount_spent = flow[id].tracked
    /\ last.op \in {"update_spending_limit", "deactivate_card",
                    "reactivate_card"} =>
          Post.amount_spent = last.pre.amount_spent
    /\ \A id \in CardIds, l \in U64, a \in U64, r \in Addresses :
          LET card == cards[id]
              raised == update_spending_limit(card, l, card.owner)
          IN  /\ raised.card.amount_spent = card.amount_spent
              /\ spend(raised.card, a, r, card.owner).status = SUCCESS =>
                    a <= l - card.amount_spent

\* An update_spending_limit that raised the limit of a card that had
\* spent up to its limit in more than one call: the limit left for
\* spending is the raise, not the new limit.
C30_Witness ==
    /\ Called("update_spending_limit") /\ Succeeded
    /\ last.pre.amount_spent = last.pre.spending_limit
    /\ last.pre.amount_spent > 1
    /\ last.amount > last.pre.spending_limit
    /\ Post.amount_spent = flow[last.card_id].tracked
    /\ \A a \in U64 :
          spend(Post, a, OTHER_ADDRESS, Post.owner).status = SUCCESS =>
              a <= last.amount - last.pre.spending_limit

\* C31: for the owner and an amount of 0, withdraw succeeds on every card,
\* direct_transfer succeeds on every active card, and spend succeeds on
\* every active card with amount_spent <= spending_limit and aborts with
\* ExceedsSpendingLimit on every active card with spending_limit <
\* amount_spent; each leaves the card and the holdings as they were; a
\* successful spend and direct_transfer of 0 emit their one event, the
\* withdraw emits none.
C31_ZeroAmountAccepted ==
    (last.op \in {"withdraw", "direct_transfer", "spend"}
     /\ ByOwner /\ last.amount = 0) =>
        /\ Post = last.pre
        /\ coins = last.pre_coins
        /\ Called("withdraw") => Succeeded /\ last.events = <<>>
        /\ (Called("direct_transfer") /\ last.pre.is_active) =>
              /\ Succeeded
              /\ last.events =
                    <<DirectTransferEvent(last.card_id, last.recipient, 0,
                                          last.pre.balance)>>
        /\ (Called("spend") /\ last.pre.is_active) =>
              IF last.pre.amount_spent <= last.pre.spending_limit
              THEN /\ Succeeded
                   /\ last.events =
                         <<SpendEvent(last.card_id, 0, last.pre.balance,
                                      last.pre.amount_spent)>>
              ELSE AbortedWith(EExceedsSpendingLimit)

\* A spend of 0 by the owner that an active, funded card refused because
\* its limit is under the amount already spent.
C31_Witness ==
    /\ Called("spend") /\ ByOwner /\ last.amount = 0
    /\ last.pre.is_active /\ last.pre.balance > 0
    /\ last.pre.spending_limit < last.pre.amount_spent
    /\ AbortedWith(EExceedsSpendingLimit)

\* C32: when a card is held by an address that is not its owner, every
\* deposit, spend, spend_to_owner, direct_transfer, withdraw,
\* deactivate_card, reactivate_card and update_spending_limit the holder
\* sends, with any amount, limit and recipient, aborts with NotOwner: the
\* card, its balance, limit and flag, and the holdings stay as they were.
C32_HolderHasNoAuthority ==
    /\ (/\ last.op \in OwnerGated
        /\ last.sender = object_owner[last.card_id]
        /\ last.sender # last.pre.owner) =>
          /\ AbortedWith(ENotOwner)
          /\ Post = last.pre
          /\ coins = last.pre_coins
          /\ last.transfers = <<>> /\ last.events = <<>>
    /\ \A id \in CardIds :
          object_owner[id] # cards[id].owner =>
              LET card == cards[id]
                  holder == object_owner[id]
                  NotOwner(r) == /\ r.status = ABORT
                                 /\ r.code = <<ENotOwner>>
                                 /\ r.card = card
                                 /\ r.transfers = <<>>
              IN  /\ NotOwner(deactivate_card(card, holder))
                  /\ NotOwner(reactivate_card(card, holder))
                  /\ \A a \in U64 :
                        /\ NotOwner(deposit(card, a, holder))
                        /\ NotOwner(withdraw(card, a, holder))
                        /\ NotOwner(spend_to_owner(card, a, holder))
                        /\ NotOwner(update_spending_limit(card, a, holder))
                        /\ \A to \in Addresses :
                              /\ NotOwner(spend(card, a, to, holder))
                              /\ NotOwner(direct_transfer(card, a, to, holder))

\* A withdraw, within the balance, sent by the address that holds a card
\* of another owner.
C32_Witness ==
    /\ Called("withdraw")
    /\ last.sender = object_owner[last.card_id]
    /\ last.sender # last.pre.owner
    /\ last.amount > 0 /\ last.pre.balance >= last.amount
    /\ AbortedWith(ENotOwner) /\ Post.balance = last.pre.balance

\* C33: for every account and every card the view of useCards returns
\* after a fetch, isActive is true exactly when the is_active field of the
\* card on the ledger is true: a card deactivated by deactivate_card is
\* shown inactive.
C33_ViewShowsActivityFlag ==
    \A account \in Addresses :
        LET view == fetchCards(account)
        IN  \A id \in DOMAIN view :
                view[id].isActive = cards[view[id].id].is_active

\* The type HistoryPage is to show for an event of the ledger.
ShownAs(eventType) ==
    CASE eventType = "CardCreated" -> "create"
      [] eventType = "Deposit" -> "deposit"
      [] eventType = "Spend" -> "spend"
      [] eventType = "DirectTransfer" -> "transfer"

\* C34: after a fetch, for every account, every event the ledger has
\* emitted for a card of the account is a transaction of HistoryPage, with
\* the card of the event, the time of the event and the type create,
\* deposit, spend or transfer for CardCreated, Deposit, Spend or
\* DirectTransfer; and the transactions are in the order newest first.
C34_HistoryShowsEveryEvent ==
    \A account \in Addresses :
        LET transactions == fetchTransactionData(account)
        IN  /\ \A i \in 1..Len(indexer.events) :
                  LET e == indexer.events[i]
                  IN  cards[e.card_id].owner = account =>
                          \E k \in 1..Len(transactions) :
                              /\ transactions[k].cardId = e.card_id
                              /\ transactions[k].timestamp = i
                              /\ transactions[k].type = ShownAs(e.type)
            /\ \A k \in 1..(Len(transactions) - 1) :
                  transactions[k].timestamp >= transactions[k + 1].timestamp
====
